---- MODULE Spec2Model ----
(***************************************************************************)
(* A model of comserde, a compact binary serialization library.            *)
(*                                                                         *)
(* Python integers are modelled by TLA+ integers; the inputs are kept      *)
(* below 2^26 so that every intermediate value stays inside the range      *)
(* TLC's integers have.  Python's `&`, `>>` on a negative integer follow   *)
(* two's complement with an infinite sign extension: x & 0x7f is the floor *)
(* remainder x % 128 and x >> 7 is the floor quotient x \div 128, which is *)
(* what TLA+'s % and \div compute.  Where read_vlq_sized would build an    *)
(* integer of 2^30 or more (it can, from bytes that another format wrote), *)
(* the model's result is the error "ModelRange", which is no outcome of    *)
(* the program: the harness makes no call that ends so.                    *)
(*                                                                         *)
(* A binary file (io.BytesIO) is a pair buf, pos.  A read returns a record *)
(* [err, val, pos]: err is "" or the name of the exception raised, pos the *)
(* file position after the call.  A write returns [err, bytes]: the bytes  *)
(* the call wrote (before it raised, when err is not "").  Where the code   *)
(* binds the result of a call to a name and goes on, the model hands the   *)
(* result to a local operator (after, step, ...) that holds what follows.  *)
(***************************************************************************)
EXTENDS Integers, Sequences, FiniteSets, TLC

\* buf, pos: the binary file the harness writes and reads;
\* param: what the harness fixed for the stream (a fixed_size, or an encoding);
\* log: the writes made so far (history); last: the last call and its result;
\* subclasses: Base.__subclasses__(), the classes that inherit from the base
\* registered with union_serializable, in the order of their definition;
\* cache: what functools.cache holds for get_encoding of that base
VARIABLES buf, pos, param, log, last, subclasses, cache

vars == <<buf, pos, param, log, last, subclasses, cache>>

\* the cache of a function of no argument that has not returned yet
NoCache == [set |-> FALSE, encoding |-> <<>>]

(***************************************************************************)
(* Bounds                                                                  *)
(***************************************************************************)
\* the integer inputs reach 2^(7 * MaxGroups)
MaxGroups == 2
\* the number of values written to one stream
MaxWrites == 2

(***************************************************************************)
(* io.BytesIO                                                              *)
(***************************************************************************)
Min(a, b) == IF a < b THEN a ELSE b

\* file.read(length): up to `length` bytes from the position, which advances
\* by the number of bytes returned
file_read(length, b, p) ==
  LET stop == Min(Len(b), p + length)
  IN  [data |-> SubSeq(b, p + 1, stop), pos |-> stop]

\* file.write(data) at position p: overwrites, then extends
file_write(data, b, p) ==
  SubSeq(b, 1, p) \o data \o SubSeq(b, p + Len(data) + 1, Len(b))

(***************************************************************************)
(* decoding.py                                                             *)
(***************************************************************************)
read_bytes(length, b, p) ==
  LET check(r) ==
        IF Len(r.data) # length
        THEN [err |-> "DecodingError", data |-> <<>>, pos |-> r.pos]
        ELSE [err |-> "", data |-> r.data, pos |-> r.pos]
  IN  check(file_read(length, b, p))

(***************************************************************************)
(* vlq.py                                                                  *)
(***************************************************************************)
RECURSIVE read_vlq_loop(_, _, _, _)
read_vlq_loop(b, p, index, result) ==
  LET \* result |= (byte & 0x7f) << (7 * index): the bits of result lie
      \* below 7 * index, so the `or` adds
      next(byte, q, result2) ==
        IF (byte \div 128) * 128 < 1
        THEN [err |-> "", val |-> result2, pos |-> q]
        ELSE read_vlq_loop(b, q, index + 1, result2)
      step(r) ==
        IF r.err # ""
        THEN [err |-> r.err, val |-> 0, pos |-> r.pos]
        ELSE next(r.data[1], r.pos, result + (r.data[1] % 128) * 2^(7 * index))
  IN  step(read_bytes(1, b, p))

\* a reader that counts the 7-bit groups from 1
read_vlq_from_one(b, p) == read_vlq_loop(b, p, 1, 0)

read_vlq(b, p) == read_vlq_loop(b, p, 0, 0)

RECURSIVE write_vlq_loop(_)
write_vlq_loop(current) ==
  LET byte_value == current % 128
      current_value == current \div 128
      is_last == current_value < 1
  IN  <<byte_value + (IF ~is_last THEN 128 ELSE 0)>>
        \o (IF is_last THEN <<>> ELSE write_vlq_loop(current_value))

\* a writer that never sets the continuation flag
write_vlq_no_flag(value) ==
  [j \in DOMAIN write_vlq_loop(value) |-> write_vlq_loop(value)[j] % 128]

write_vlq(value) == write_vlq_loop(value)

\* int.from_bytes(data, byteorder='little')
RECURSIVE from_bytes_little(_)
from_bytes_little(data) ==
  IF data = <<>> THEN 0
  ELSE data[1] + 256 * from_bytes_little(Tail(data))

\* data.to_bytes(byteorder='little', length=length), for 0 <= data < 256^length
to_bytes_little(data, length) ==
  [j \in 1..length |-> (data \div 256^(j - 1)) % 256]

read_vlq_sized(b, p, fixed_size) ==
  LET shifted(data, v) ==
        IF v.err # ""
        THEN v
        ELSE IF v.val >= 2^(30 - fixed_size * 8)
        THEN [err |-> "ModelRange", val |-> 0, pos |-> v.pos]
        ELSE [err |-> "", val |-> v.val * 2^(fixed_size * 8) + data, pos |-> v.pos]
      after(d) ==
        IF d.err # ""
        THEN [err |-> d.err, val |-> 0, pos |-> d.pos]
        ELSE shifted(from_bytes_little(d.data), read_vlq(b, d.pos))
  IN  after(read_bytes(fixed_size, b, p))

write_vlq_sized(value, fixed_size) ==
  LET bit_count == fixed_size * 8
      data == value % 2^bit_count
  IN  to_bytes_little(data, fixed_size) \o write_vlq(value \div 2^bit_count)

read_vlq_signed(b, p, fixed_size) ==
  LET after(r) ==
        IF r.err # ""
        THEN r
        ELSE [err |-> "", pos |-> r.pos,
              val |-> (r.val \div 2) * (IF r.val % 2 > 0 THEN -1 ELSE 1)]
  IN  after(read_vlq_sized(b, p, fixed_size))

abs(x) == IF x < 0 THEN -x ELSE x

\* a writer that drops the sign
write_vlq_signed_no_sign(value, fixed_size) ==
  write_vlq_sized(abs(value) * 2, fixed_size)

write_vlq_signed(value, fixed_size) ==
  write_vlq_sized(abs(value) * 2 + (IF value < 0 THEN 1 ELSE 0), fixed_size)

(***************************************************************************)
(* Python values.  Every value is a record [t, i, chars, items]: t the     *)
(* name of its type, i the integer of an int, chars the code points of a   *)
(* str or the bytes of a bytes, items the elements of a list or the        *)
(* attribute values of an instance, in the order of the class's fields.    *)
(***************************************************************************)
IntV(n) == [t |-> "int", i |-> n, chars |-> <<>>, items |-> <<>>]
StrV(cps) == [t |-> "str", i |-> 0, chars |-> cps, items |-> <<>>]
BytesV(bs) == [t |-> "bytes", i |-> 0, chars |-> bs, items |-> <<>>]
ListV(xs) == [t |-> "list", i |-> 0, chars |-> <<>>, items |-> xs]
ObjV(cls, xs) == [t |-> cls, i |-> 0, chars |-> <<>>, items |-> xs]
NoneV == [t |-> "NoneType", i |-> 0, chars |-> <<>>, items |-> <<>>]
\* the empty tuple, which deserializing 'void' returns
UnitV == [t |-> "tuple", i |-> 0, chars |-> <<>>, items |-> <<>>]

\* a call that returned val and left the file at p
Return(val, p) == [err |-> "", val |-> val, pos |-> p]
\* a call that raised the exception err and left the file at p
Raise(err, p) == [err |-> err, val |-> NoneV, pos |-> p]
\* a write that wrote bytes
Wrote(bytes) == [err |-> "", bytes |-> bytes]
\* a write that raised err after writing bytes
WriteRaised(err, bytes) == [err |-> err, bytes |-> bytes]

(***************************************************************************)
(* str.encode('utf-8') and bytes.decode('utf-8')                           *)
(***************************************************************************)
IsSurrogate(cp) == cp >= 55296 /\ cp <= 57343

utf8_char(cp) ==
  IF cp < 128 THEN <<cp>>
  ELSE IF cp < 2048 THEN <<192 + (cp \div 64), 128 + (cp % 64)>>
  ELSE IF cp < 65536
       THEN <<224 + (cp \div 4096), 128 + ((cp \div 64) % 64), 128 + (cp % 64)>>
  ELSE <<240 + (cp \div 262144), 128 + ((cp \div 4096) % 64),
         128 + ((cp \div 64) % 64), 128 + (cp % 64)>>

RECURSIVE utf8_encode(_)
utf8_encode(cps) ==
  IF cps = <<>> THEN <<>> ELSE utf8_char(cps[1]) \o utf8_encode(Tail(cps))

IsCont(bs, j) == j <= Len(bs) /\ bs[j] >= 128 /\ bs[j] <= 191

\* [ok, cps]: ok is FALSE where decode raises UnicodeDecodeError
RECURSIVE utf8_decode(_, _, _)
utf8_decode(bs, j, acc) ==
  IF j > Len(bs) THEN [ok |-> TRUE, cps |-> acc]
  ELSE LET b0 == bs[j]
           bad == [ok |-> FALSE, cps |-> <<>>]
       IN  IF b0 < 128 THEN utf8_decode(bs, j + 1, Append(acc, b0))
           ELSE IF b0 >= 194 /\ b0 <= 223
           THEN IF IsCont(bs, j + 1)
                THEN utf8_decode(bs, j + 2, Append(acc, (b0 - 192) * 64 + (bs[j + 1] - 128)))
                ELSE bad
           ELSE IF b0 >= 224 /\ b0 <= 239
           THEN IF IsCont(bs, j + 1) /\ IsCont(bs, j + 2)
                THEN LET cp == (b0 - 224) * 4096 + (bs[j + 1] - 128) * 64 + (bs[j + 2] - 128)
                     IN  IF cp >= 2048 /\ ~IsSurrogate(cp)
                         THEN utf8_decode(bs, j + 3, Append(acc, cp))
                         ELSE bad
                ELSE bad
           ELSE IF b0 >= 240 /\ b0 <= 244
           THEN IF IsCont(bs, j + 1) /\ IsCont(bs, j + 2) /\ IsCont(bs, j + 3)
                THEN LET cp == (b0 - 240) * 262144 + (bs[j + 1] - 128) * 4096
                                 + (bs[j + 2] - 128) * 64 + (bs[j + 3] - 128)
                     IN  IF cp >= 65536 /\ cp <= 1114111
                         THEN utf8_decode(bs, j + 4, Append(acc, cp))
                         ELSE bad
                ELSE bad
           ELSE bad

(***************************************************************************)
(* primitive.py.  Of the formats, the ones modelled are the unsigned fixed *)
(* widths u8..u64, the varints v8..v64 and w8..w64, bytes, utf-8 and void; *)
(* a value handed to a format is of the format's Python type.              *)
(***************************************************************************)
\* struct.pack('<B' / '<H' / '<I' / '<Q', value): struct.error out of the
\* format's range (an integer of the model is below the range of 4 bytes)
struct_pack(value, length) ==
  IF value < 0 \/ (length < 4 /\ value >= 256^length)
  THEN WriteRaised("struct.error", <<>>)
  ELSE Wrote(to_bytes_little(value, length))

primitive_serialize_bytes(bs) == Wrote(write_vlq(Len(bs)) \o bs)

\* the arms of the match statement, in the order of the source: an arm is
\* reached only when no earlier arm matches
primitive_serialize(value, encoding) ==
  IF encoding = "u8" THEN struct_pack(value.i, 1)
  ELSE IF encoding = "u16" THEN struct_pack(value.i, 2)
  ELSE IF encoding = "u32" THEN struct_pack(value.i, 4)
  ELSE IF encoding = "u64" THEN struct_pack(value.i, 8)
  ELSE IF encoding \in {"v8", "v16", "v32", "v64"} THEN Wrote(write_vlq(value.i))
  ELSE IF encoding = "v8" THEN Wrote(write_vlq_sized(value.i, 0))
  ELSE IF encoding = "v16" THEN Wrote(write_vlq_sized(value.i, 1))
  ELSE IF encoding = "v32" THEN Wrote(write_vlq_sized(value.i, 2))
  ELSE IF encoding = "v64" THEN Wrote(write_vlq_sized(value.i, 3))
  ELSE IF encoding = "w8" THEN Wrote(write_vlq_signed(value.i, 0))
  ELSE IF encoding = "w16" THEN Wrote(write_vlq_signed(value.i, 1))
  ELSE IF encoding = "w32" THEN Wrote(write_vlq_signed(value.i, 2))
  ELSE IF encoding = "w64" THEN Wrote(write_vlq_signed(value.i, 3))
  ELSE IF encoding = "bytes" THEN primitive_serialize_bytes(value.chars)
  ELSE IF encoding = "utf-8" THEN primitive_serialize_bytes(utf8_encode(value.chars))
  ELSE IF encoding = "void" THEN Wrote(<<>>)
  ELSE WriteRaised("ValueError", <<>>)

\* read_struct('<B' / '<H' / '<I' / '<Q', file)[0]; "ModelRange" where the
\* bytes hold an integer of 2^30 or more
read_struct(length, b, p) ==
  LET unpack(r) ==
        IF r.err # "" THEN Raise(r.err, r.pos)
        ELSE IF \E j \in 4..Len(r.data) : r.data[j] >= (IF j = 4 THEN 64 ELSE 1)
        THEN Raise("ModelRange", r.pos)
        ELSE Return(IntV(from_bytes_little(SubSeq(r.data, 1, Min(Len(r.data), 4)))), r.pos)
  IN  unpack(read_bytes(length, b, p))

\* an integer reader's result as a Python value
AsInt(r) == IF r.err # "" THEN Raise(r.err, r.pos) ELSE Return(IntV(r.val), r.pos)

\* length = read_vlq(file); return read_bytes(length, file)
primitive_deserialize_bytes(b, p) ==
  LET data(r) ==
        IF r.err # "" THEN Raise(r.err, r.pos) ELSE Return(BytesV(r.data), r.pos)
      after(length) ==
        IF length.err # "" THEN Raise(length.err, length.pos)
        ELSE data(read_bytes(length.val, b, length.pos))
  IN  after(read_vlq(b, p))

\* deserialize(file, 'bytes').decode('utf-8'): the inner call raises
\* DeserializationError for a DecodingError of its own
primitive_deserialize_utf8(b, p) ==
  LET decoded(d, q) ==
        IF d.ok THEN Return(StrV(d.cps), q) ELSE Raise("UnicodeDecodeError", q)
      after(r) ==
        IF r.err = "DecodingError" THEN Raise("DeserializationError", r.pos)
        ELSE IF r.err # "" THEN r
        ELSE decoded(utf8_decode(r.val.chars, 1, <<>>), r.pos)
  IN  after(primitive_deserialize_bytes(b, p))

\* the body of the try statement
primitive_deserialize_try(b, p, encoding) ==
  IF encoding = "u8" THEN read_struct(1, b, p)
  ELSE IF encoding = "u16" THEN read_struct(2, b, p)
  ELSE IF encoding = "u32" THEN read_struct(4, b, p)
  ELSE IF encoding = "u64" THEN read_struct(8, b, p)
  ELSE IF encoding = "v8" THEN AsInt(read_vlq_sized(b, p, 0))
  ELSE IF encoding = "v16" THEN AsInt(read_vlq_sized(b, p, 1))
  ELSE IF encoding = "v32" THEN AsInt(read_vlq_sized(b, p, 2))
  ELSE IF encoding = "v64" THEN AsInt(read_vlq_sized(b, p, 3))
  ELSE IF encoding = "w8" THEN AsInt(read_vlq_signed(b, p, 0))
  ELSE IF encoding = "w16" THEN AsInt(read_vlq_signed(b, p, 1))
  ELSE IF encoding = "w32" THEN AsInt(read_vlq_signed(b, p, 2))
  ELSE IF encoding = "w64" THEN AsInt(read_vlq_signed(b, p, 3))
  ELSE IF encoding = "bytes" THEN primitive_deserialize_bytes(b, p)
  ELSE IF encoding = "utf-8" THEN primitive_deserialize_utf8(b, p)
  ELSE IF encoding = "void" THEN Return(UnitV, p)
  ELSE Raise("ValueError", p)

\* except (DecodingError, EOFError, UnicodeDecodeError, struct.error):
\*   raise DeserializationError
primitive_deserialize(b, p, encoding) ==
  LET except(r) ==
        IF r.err \in {"DecodingError", "EOFError", "UnicodeDecodeError", "struct.error"}
        THEN Raise("DeserializationError", r.pos)
        ELSE r
  IN  except(primitive_deserialize_try(b, p, encoding))

(***************************************************************************)
(* get_encoding_for_int_range compares its argument with 1 << 32 and       *)
(* 1 << 64, which no TLA+ integer of the model holds: the argument and the *)
(* limits are given by their digits in base 2^16, the lowest digit first   *)
(* and the highest digit not 0.                                            *)
(***************************************************************************)
RECURSIVE Limbs(_)
Limbs(n) == IF n = 0 THEN <<>> ELSE <<n % 65536>> \o Limbs(n \div 65536)

\* 1 << k
ShiftLeft1(k) ==
  [j \in 1..(k \div 16 + 1) |-> IF j = k \div 16 + 1 THEN 2^(k % 16) ELSE 0]

\* x <= y
RECURSIVE BigLeq(_, _)
BigLeq(x, y) ==
  IF Len(x) # Len(y) THEN Len(x) < Len(y)
  ELSE IF x = <<>> THEN TRUE
  ELSE IF x[Len(x)] # y[Len(y)] THEN x[Len(x)] < y[Len(y)]
  ELSE BigLeq(SubSeq(x, 1, Len(x) - 1), SubSeq(y, 1, Len(y) - 1))

\* the limits compared with `<` where the source has `<=`
get_encoding_for_int_range_strict(max_value) ==
  IF max_value # ShiftLeft1(8) /\ BigLeq(max_value, ShiftLeft1(8)) THEN "u8"
  ELSE IF max_value # ShiftLeft1(16) /\ BigLeq(max_value, ShiftLeft1(16)) THEN "u16"
  ELSE IF max_value # ShiftLeft1(32) /\ BigLeq(max_value, ShiftLeft1(32)) THEN "u32"
  ELSE IF max_value # ShiftLeft1(64) /\ BigLeq(max_value, ShiftLeft1(64)) THEN "u64"
  ELSE "v64"

\* the loop over the four (encoding, limit) pairs, then the return after it
get_encoding_for_int_range(max_value) ==
  IF BigLeq(max_value, ShiftLeft1(8)) THEN "u8"
  ELSE IF BigLeq(max_value, ShiftLeft1(16)) THEN "u16"
  ELSE IF BigLeq(max_value, ShiftLeft1(32)) THEN "u32"
  ELSE IF BigLeq(max_value, ShiftLeft1(64)) THEN "u64"
  ELSE "v64"

(***************************************************************************)
(* Encodings (composite.EncodingFormat): records [kind, name, args].       *)
(***************************************************************************)
\* a primitive format given by its name, such as 'v16'
Fmt(name) == [kind |-> "format", name |-> name, args |-> <<>>]
\* a builtin type: int, str, bytes, NoneType
TypeT(name) == [kind |-> "type", name |-> name, args |-> <<>>]
IntT == TypeT("int")
StrT == TypeT("str")
NoneT == TypeT("NoneType")
\* list[item_type]
ListOf(item_type) == [kind |-> "list", name |-> "", args |-> <<item_type>>]
\* a union, its __args__ in the declared order
UnionOf(variants) == [kind |-> "union", name |-> "", args |-> variants]
\* typing.Optional[T] is Union[T, None]: its __args__ are (T, NoneType)
OptionalOf(T) == UnionOf(<<T, NoneT>>)
\* collections.deque[item_type]
DequeOf(item_type) == [kind |-> "deque", name |-> "", args |-> <<item_type>>]
\* Literal[...]: __args__ holds the constants (values) in the declared order
LiteralOf(variants) == [kind |-> "literal", name |-> "", args |-> variants]
\* Annotated[default_type, *metadata]: __args__ is (default_type,)
AnnotatedOf(default_type, metadata) ==
  [kind |-> "annotated", name |-> "", args |-> <<default_type>> \o metadata]
\* SerializationFormat(type), an entry of the metadata of an Annotated
SerializationFormat(type) ==
  [kind |-> "SerializationFormat", name |-> "", args |-> <<type>>]
\* an entry of the metadata that is no SerializationFormat
Meta(name) == [kind |-> "metadata", name |-> name, args |-> <<>>]
\* a class registered with @serializable
ClassT(name) == [kind |-> "class", name |-> name, args |-> <<>>]
\* an Enum registered with @serializable
EnumT(name) == [kind |-> "enum", name |-> name, args |-> <<>>]
\* dump(value, file) without an encoding
NoEncoding == [kind |-> "None", name |-> "", args |-> <<>>]

\* a member of an Enum, by its place in the declaration
EnumV(name, index) == [t |-> name, i |-> index, chars |-> <<>>, items |-> <<>>]

\* collections.deque(items, maxlen=maxlen), maxlen being None or an int:
\* i holds maxlen, -1 standing for None
DequeV(maxlen, items) ==
  [t |-> "deque", i |-> (IF maxlen = NoneV THEN -1 ELSE maxlen.i),
   chars |-> <<>>, items |-> items]
\* value.maxlen
deque_maxlen(value) == IF value.i < 0 THEN NoneV ELSE IntV(value.i)

\* a Flag registered with @serializable
FlagT(name) == [kind |-> "flag", name |-> name, args |-> <<>>]
\* a value of a Flag (a member or a combination of members), by its _value_
FlagV(name, value) == [t |-> name, i |-> value, chars |-> <<>>, items |-> <<>>]

(***************************************************************************)
(* The registered classes of the tests.                                    *)
(***************************************************************************)
Field(name, type) ==
  [name |-> name, type |-> type, serialize |-> TRUE,
   default_kind |-> "MISSING", default |-> NoneV]
\* field(default=..., serialize=False) / field(default_factory=..., serialize=False)
SkipField(name, type, default_kind, default) ==
  [name |-> name, type |-> type, serialize |-> FALSE,
   default_kind |-> default_kind, default |-> default]

\* DecoratorTest.test1, its fields of type int, str and list[int]
ClassA1 ==
  [dataclass |-> TRUE,
   fields |-> <<Field("a", IntT), Field("b", StrT), Field("c", ListOf(IntT))>>]
\* DecoratorTest.test2: a plain class registered with a dictionary
ClassA2 ==
  [dataclass |-> FALSE,
   fields |-> <<Field("a", IntT), Field("b", StrT)>>]
\* DecoratorTest.test3
ClassA3 ==
  [dataclass |-> TRUE,
   fields |-> <<Field("a", IntT), Field("b", StrT),
                SkipField("c", IntT, "default", IntV(16))>>]
\* as test3, the skipped field lying between the serialized ones and
\* declared with default_factory=list
ClassA3f ==
  [dataclass |-> TRUE,
   fields |-> <<Field("a", IntT),
                SkipField("c", ListOf(IntT), "default_factory", ListV(<<>>)),
                Field("b", StrT)>>]

\* @serializable @dataclass class B: a: int
ClassB ==
  [dataclass |-> TRUE, fields |-> <<Field("a", IntT)>>]
\* @serializable @dataclass class C(B): b: int
ClassC ==
  [dataclass |-> TRUE, fields |-> <<Field("a", IntT), Field("b", IntT)>>]

\* @union_serializable class Base(ABC), and three dataclasses that inherit
\* from it, each registered with @serializable:
\*   class S1(Base): a: int      class S2(Base): a: int      class S3(Base): x: int
ClassS1 == [dataclass |-> TRUE, fields |-> <<Field("a", IntT)>>]
ClassS2 == [dataclass |-> TRUE, fields |-> <<Field("a", IntT)>>]
ClassS3 == [dataclass |-> TRUE, fields |-> <<Field("x", IntT)>>]

SubclassNames == {"S1", "S2", "S3"}

ClassNames == {"A1", "A2", "A3", "A3f", "B", "C"} \cup SubclassNames

\* the classes a class inherits from
Bases(name) ==
  IF name = "C" THEN {"B"}
  ELSE IF name \in SubclassNames THEN {"Base"}
  ELSE {}

ClassDef(name) ==
  CASE name = "A1" -> ClassA1
    [] name = "A2" -> ClassA2
    [] name = "A3" -> ClassA3
    [] name = "A3f" -> ClassA3f
    [] name = "B" -> ClassB
    [] name = "C" -> ClassC
    [] name = "S1" -> ClassS1
    [] name = "S2" -> ClassS2
    [] name = "S3" -> ClassS3

\* getattr(self, field_name): the place of the attribute among the fields
\* of the class of self, 0 standing for the AttributeError
attr_index(self, field_name) ==
  IF self.t \notin ClassNames THEN 0
  ELSE LET fields == ClassDef(self.t).fields
       IN  IF \E j \in DOMAIN fields : fields[j].name = field_name
           THEN CHOOSE j \in DOMAIN fields : fields[j].name = field_name
           ELSE 0

\* list(target) of the Enum: the number of its members
EnumSize(name) ==
  CASE name = "Color" -> 3
    [] name = "E5" -> 5
    [] name = "E256" -> 256
    [] name = "E300" -> 300
    [] name = "E65537" -> 65537

EnumNames == {"Color", "E5", "E256", "E300", "E65537"}

\* list(target) of the Flag: the _value_ of each member that is one bit, in
\* the order of the declaration.
\*   class Perm(Flag): R = 1; W = 2; X = 4
\*   class Mode(Flag): A = 4; B = 1; C = 2
\*   class Wide(Flag): nine members, 1, 2, 4, ..., 256
FlagVariants(name) ==
  CASE name = "Perm" -> <<1, 2, 4>>
    [] name = "Mode" -> <<4, 1, 2>>
    [] name = "Wide" -> [j \in 1..9 |-> 2^(j - 1)]

FlagNames == {"Perm", "Mode", "Wide"}

\* a & b and a | b of Python, for a, b >= 0
RECURSIVE BitAnd(_, _)
BitAnd(a, b) ==
  IF a = 0 \/ b = 0 THEN 0
  ELSE (a % 2) * (b % 2) + 2 * BitAnd(a \div 2, b \div 2)

BitOr(a, b) == a + b - BitAnd(a, b)

(***************************************************************************)
(* composite.py, decorator.py                                              *)
(***************************************************************************)
\* one write after another: the second is not made when the first raised
Then(w1, w2) ==
  IF w1.err # "" THEN w1
  ELSE [err |-> w2.err, bytes |-> w1.bytes \o w2.bytes]

\* isinstance(value, inner_type): "TypeError" for a parameterized generic
IsInstance(value, inner_type) ==
  IF inner_type.kind \in {"type", "class", "enum", "flag"}
  THEN IF value.t = inner_type.name \/ inner_type.name \in Bases(value.t)
       THEN "yes" ELSE "no"
  ELSE "TypeError"

\* case typing._AnnotatedAlias(__args__=(inner_type,)) | inner_type
InnerType(variant_type) ==
  IF variant_type.kind = "annotated" THEN variant_type.args[1] ELSE variant_type

RECURSIVE serialize(_, _)
RECURSIVE serialize_items(_, _, _)
RECURSIVE class_serialize(_, _, _)
RECURSIVE union_serialize(_, _, _)
RECURSIVE class_serialize_all(_, _, _)
RECURSIVE annotated_serialize(_, _, _)
RECURSIVE union_serialize_from_one(_, _, _)

\* enum_serializable._serialize: variants.index(self) in the chosen width
enum_serialize(self, name) ==
  serialize(IntV(self.i), Fmt(get_encoding_for_int_range(Limbs(EnumSize(name)))))

\* sum([2 ** index for index, variant in enumerate(variants) if variant in self]),
\* from the variant at index (counted from 0); `variant in self` is
\* variant._value_ & self._value_ == variant._value_
RECURSIVE flag_sum(_, _, _)
flag_sum(self, variants, index) ==
  IF index >= Len(variants) THEN 0
  ELSE (IF BitAnd(variants[index + 1], self.i) = variants[index + 1] THEN 2^index ELSE 0)
         + flag_sum(self, variants, index + 1)

\* flag_serializable._serialize
flag_serialize(self, name) ==
  serialize(IntV(flag_sum(self, FlagVariants(name), 0)),
            Fmt(get_encoding_for_int_range(ShiftLeft1(Len(FlagVariants(name))))))

\* a _serialize that writes every field, whatever its metadata says
class_serialize_all(self, name, index) ==
  IF index > Len(ClassDef(name).fields) THEN Wrote(<<>>)
  ELSE IF attr_index(self, ClassDef(name).fields[index].name) = 0
  THEN WriteRaised("AttributeError", <<>>)
  ELSE Then(serialize(self.items[attr_index(self, ClassDef(name).fields[index].name)],
                      ClassDef(name).fields[index].type),
            class_serialize_all(self, name, index + 1))

\* class_serializable._serialize, from the field at index
class_serialize(self, name, index) ==
  LET target == ClassDef(name)
  IN  IF index > Len(target.fields) THEN Wrote(<<>>)
      ELSE LET field == target.fields[index]
           IN  IF target.dataclass /\ ~field.serialize
               THEN class_serialize(self, name, index + 1)
               ELSE IF attr_index(self, field.name) = 0
               THEN WriteRaised("AttributeError", <<>>)
               ELSE Then(serialize(self.items[attr_index(self, field.name)], field.type),
                         class_serialize(self, name, index + 1))

\* for item in value: serialize(item, file, item_type)
serialize_items(items, index, item_type) ==
  IF index > Len(items) THEN Wrote(<<>>)
  ELSE Then(serialize(items[index], item_type),
            serialize_items(items, index + 1, item_type))

\* the Annotated arm: the loop over the metadata entries from index (entry 1
\* of args is default_type), then serialize(value, file, default_type)
annotated_serialize(value, args, index) ==
  IF index > Len(args) THEN serialize(value, args[1])
  ELSE IF args[index].kind = "SerializationFormat"
  THEN serialize(value, args[index].args[1])
  ELSE annotated_serialize(value, args, index + 1)

\* variants.index(value), counted from 0, from the constant at index; -1
\* stands for the ValueError of tuple.index
RECURSIVE tuple_index(_, _, _)
tuple_index(variants, value, index) ==
  IF index >= Len(variants) THEN -1
  ELSE IF variants[index + 1] = value THEN index
  ELSE tuple_index(variants, value, index + 1)

\* a Literal arm that writes the index whatever the number of constants
literal_serialize_always(value, variants) ==
  IF Len(variants) > 0
  THEN IF tuple_index(variants, value, 0) < 0 THEN WriteRaised("ValueError", <<>>)
       ELSE primitive_serialize(IntV(tuple_index(variants, value, 0)), "v8")
  ELSE Wrote(<<>>)

\* the Literal arm of serialize
literal_serialize(value, variants) ==
  IF Len(variants) > 1
  THEN IF tuple_index(variants, value, 0) < 0 THEN WriteRaised("ValueError", <<>>)
       ELSE primitive_serialize(IntV(tuple_index(variants, value, 0)), "v8")
  ELSE Wrote(<<>>)

\* a scan that writes the ordinals counted from 1
union_serialize_from_one(value, variants, variant_index) ==
  IF variant_index >= Len(variants) THEN WriteRaised("ValueError", <<>>)
  ELSE IF IsInstance(value, InnerType(variants[variant_index + 1])) = "TypeError"
  THEN WriteRaised("TypeError", <<>>)
  ELSE IF IsInstance(value, InnerType(variants[variant_index + 1])) = "yes"
  THEN Then(primitive_serialize(IntV(variant_index + 1), "v8"),
            serialize(value, variants[variant_index + 1]))
  ELSE union_serialize_from_one(value, variants, variant_index + 1)

\* the scan of the variants, from variant_index (counted from 0)
union_serialize(value, variants, variant_index) ==
  IF variant_index >= Len(variants) THEN WriteRaised("ValueError", <<>>)
  ELSE LET variant_type == variants[variant_index + 1]
           is == IsInstance(value, InnerType(variant_type))
       IN  IF is = "TypeError" THEN WriteRaised("TypeError", <<>>)
           ELSE IF is = "yes"
           THEN Then(primitive_serialize(IntV(variant_index), "v8"),
                     serialize(value, variant_type))
           ELSE union_serialize(value, variants, variant_index + 1)

\* composite.serialize: the arms of the match statement in the order of the
\* source.  The arms for bool, complex, float, PurePath, Any, set and the
\* pickling of any other encoding are not modelled.
serialize(value, encoding) ==
  IF encoding.kind = "class" THEN class_serialize(value, encoding.name, 1)
  ELSE IF encoding.kind = "enum" THEN enum_serialize(value, encoding.name)
  ELSE IF encoding.kind = "flag" THEN flag_serialize(value, encoding.name)
  ELSE IF encoding.kind = "format" THEN primitive_serialize(value, encoding.name)
  ELSE IF encoding = TypeT("bytes") THEN primitive_serialize(value, "bytes")
  ELSE IF encoding = IntT THEN primitive_serialize(value, "v8")
  ELSE IF encoding = StrT THEN primitive_serialize(value, "utf-8")
  ELSE IF encoding = NoneT THEN Wrote(<<>>)
  ELSE IF encoding.kind = "list"
  THEN Then(primitive_serialize(IntV(Len(value.items)), "v8"),
            serialize_items(value.items, 1, encoding.args[1]))
  ELSE IF encoding.kind = "deque"
  THEN Then(serialize(deque_maxlen(value), OptionalOf(IntT)),
            serialize(ListV(value.items), ListOf(encoding.args[1])))
  ELSE IF encoding.kind = "annotated" THEN annotated_serialize(value, encoding.args, 2)
  ELSE IF encoding.kind = "literal" THEN literal_serialize(value, encoding.args)
  ELSE IF encoding.kind = "union" THEN union_serialize(value, encoding.args, 0)
  ELSE WriteRaised("NotModelled", <<>>)

\* variants[index] of a list or tuple of `length` elements, index >= 0:
\* the exception the subscript raises, if any
subscript_error(length, index) ==
  IF index >= length THEN "IndexError" ELSE ""

RECURSIVE deserialize(_, _, _)
RECURSIVE deserialize_items(_, _, _, _, _)
RECURSIVE class_deserialize(_, _, _, _, _)
RECURSIVE annotated_deserialize(_, _, _, _)
RECURSIVE deque_deserialize(_, _, _)
RECURSIVE deque_deserialize_keep_first(_, _, _)

\* enum_serializable._deserialize: variants[deserialize(file, encoding)]
enum_deserialize(b, p, name) ==
  LET subscript(r) ==
        IF r.err # "" THEN r
        ELSE IF subscript_error(EnumSize(name), r.val.i) # ""
        THEN Raise(subscript_error(EnumSize(name), r.val.i), r.pos)
        ELSE Return(EnumV(name, r.val.i), r.pos)
  IN  subscript(deserialize(b, p, Fmt(get_encoding_for_int_range(Limbs(EnumSize(name))))))

\* [variant for index, variant in enumerate(variants) if (value & (2 ** index)) > 0],
\* from the variant at index (counted from 0)
RECURSIVE flag_matching(_, _, _)
flag_matching(value, variants, index) ==
  IF index >= Len(variants) THEN <<>>
  ELSE (IF BitAnd(value, 2^index) > 0 THEN <<variants[index + 1]>> ELSE <<>>)
         \o flag_matching(value, variants, index + 1)

\* functools.reduce(operator.or_, members), members not empty, from acc
RECURSIVE reduce_or(_, _)
reduce_or(acc, members) ==
  IF members = <<>> THEN acc
  ELSE reduce_or(BitOr(acc, Head(members)), Tail(members))

\* flag_serializable._deserialize: reduce without an initial value raises
\* TypeError on an empty list
flag_deserialize(b, p, name) ==
  LET reduce(members, q) ==
        IF members = <<>> THEN Raise("TypeError", q)
        ELSE Return(FlagV(name, reduce_or(Head(members), Tail(members))), q)
      after(value) ==
        IF value.err # "" THEN value
        ELSE reduce(flag_matching(value.val.i, FlagVariants(name), 0), value.pos)
  IN  after(deserialize(b, p, Fmt(get_encoding_for_int_range(
                                     ShiftLeft1(Len(FlagVariants(name)))))))

\* class_serializable._deserialize, from the field at index; field_values
\* holds the values of the fields before it.  The object is built from
\* field_values (no __init_deserialize__ or __post_init_deserialize__ hook).
class_deserialize(b, p, name, index, field_values) ==
  LET target == ClassDef(name)
      after(r) ==
        IF r.err # "" THEN r
        ELSE class_deserialize(b, r.pos, name, index + 1, Append(field_values, r.val))
  IN  IF index > Len(target.fields) THEN Return(ObjV(name, field_values), p)
      ELSE IF target.dataclass /\ ~target.fields[index].serialize
      THEN class_deserialize(b, p, name, index + 1,
                             Append(field_values, target.fields[index].default))
      ELSE after(deserialize(b, p, target.fields[index].type))

\* [deserialize(file, item_type) for _ in range(count)]
deserialize_items(b, p, count, item_type, acc) ==
  LET after(r) ==
        IF r.err # "" THEN r
        ELSE deserialize_items(b, r.pos, count - 1, item_type, Append(acc, r.val))
  IN  IF count <= 0 THEN Return(ListV(acc), p)
      ELSE after(deserialize(b, p, item_type))

\* the Annotated arm of deserialize, from the metadata entry at index
annotated_deserialize(b, p, args, index) ==
  IF index > Len(args) THEN deserialize(b, p, args[1])
  ELSE IF args[index].kind = "SerializationFormat"
  THEN deserialize(b, p, args[index].args[1])
  ELSE annotated_deserialize(b, p, args, index + 1)

\* collections.deque(iterable, maxlen=maxlen): the items are appended one
\* by one, the oldest being dropped when the deque is full
RECURSIVE deque_extend(_, _, _)
deque_extend(d, iterable, maxlen) ==
  IF iterable = <<>> THEN d
  ELSE deque_extend(
         IF maxlen = NoneV THEN Append(d, Head(iterable))
         ELSE IF maxlen.i = 0 THEN <<>>
         ELSE IF Len(d) = maxlen.i THEN Append(Tail(d), Head(iterable))
         ELSE Append(d, Head(iterable)),
         Tail(iterable), maxlen)

\* a deque that drops the newest item when it is full
deque_deserialize_keep_first(b, p, item_type) ==
  LET build(maxlen, list) ==
        IF list.err # "" THEN list
        ELSE Return(DequeV(maxlen,
                           IF maxlen = NoneV \/ Len(list.val.items) <= maxlen.i
                           THEN list.val.items
                           ELSE SubSeq(list.val.items, 1, maxlen.i)), list.pos)
      after(maxlen) ==
        IF maxlen.err # "" THEN maxlen
        ELSE build(maxlen.val, deserialize(b, maxlen.pos, ListOf(item_type)))
  IN  after(deserialize(b, p, OptionalOf(IntT)))

\* the deque arm of deserialize
deque_deserialize(b, p, item_type) ==
  LET build(maxlen, list) ==
        IF list.err # "" THEN list
        ELSE Return(DequeV(maxlen, deque_extend(<<>>, list.val.items, maxlen)), list.pos)
      after(maxlen) ==
        IF maxlen.err # "" THEN maxlen
        ELSE build(maxlen.val, deserialize(b, maxlen.pos, ListOf(item_type)))
  IN  after(deserialize(b, p, OptionalOf(IntT)))

\* the Literal arm of deserialize:
\* variants[primitive_deserialize(file, 'v8')] if len(variants) > 1 else variants[0]
literal_deserialize(b, p, variants) ==
  LET subscript(r) ==
        IF r.err # "" THEN r
        ELSE IF subscript_error(Len(variants), r.val.i) # ""
        THEN Raise(subscript_error(Len(variants), r.val.i), r.pos)
        ELSE Return(variants[r.val.i + 1], r.pos)
  IN  IF Len(variants) > 1 THEN subscript(primitive_deserialize(b, p, "v8"))
      ELSE Return(variants[1], p)

\* composite.deserialize
deserialize(b, p, encoding) ==
  LET items(count) ==
        IF count.err # "" THEN count
        ELSE deserialize_items(b, count.pos, count.val.i, encoding.args[1], <<>>)
      variant(variant_index) ==
        IF variant_index.err # "" THEN variant_index
        ELSE IF subscript_error(Len(encoding.args), variant_index.val.i) # ""
        THEN Raise(subscript_error(Len(encoding.args), variant_index.val.i),
                   variant_index.pos)
        ELSE deserialize(b, variant_index.pos, encoding.args[variant_index.val.i + 1])
  IN  IF encoding.kind = "class" THEN class_deserialize(b, p, encoding.name, 1, <<>>)
      ELSE IF encoding.kind = "enum" THEN enum_deserialize(b, p, encoding.name)
      ELSE IF encoding.kind = "flag" THEN flag_deserialize(b, p, encoding.name)
      ELSE IF encoding.kind = "format" THEN primitive_deserialize(b, p, encoding.name)
      ELSE IF encoding = TypeT("bytes") THEN primitive_deserialize(b, p, "bytes")
      ELSE IF encoding = IntT THEN primitive_deserialize(b, p, "v8")
      ELSE IF encoding = StrT THEN primitive_deserialize(b, p, "utf-8")
      ELSE IF encoding = NoneT THEN Return(NoneV, p)
      ELSE IF encoding.kind = "list" THEN items(primitive_deserialize(b, p, "v8"))
      ELSE IF encoding.kind = "annotated"
      THEN annotated_deserialize(b, p, encoding.args, 2)
      ELSE IF encoding.kind = "deque" THEN deque_deserialize(b, p, encoding.args[1])
      ELSE IF encoding.kind = "literal" THEN literal_deserialize(b, p, encoding.args)
      ELSE IF encoding.kind = "union" THEN variant(primitive_deserialize(b, p, "v8"))
      ELSE Raise("NotModelled", p)

(***************************************************************************)
(* entry.py                                                                *)
(***************************************************************************)
\* type(value), for the values whose type is an encoding of the model
TypeOf(value) ==
  IF value.t \in ClassNames THEN ClassT(value.t) ELSE TypeT(value.t)

\* dump(value, file, encoding): serialize(value, file, encoding or type(value))
dump(value, encoding) ==
  serialize(value, IF encoding = NoEncoding THEN TypeOf(value) ELSE encoding)

\* dumps: dump to a new BytesIO, then file.getvalue()
dumps(value, encoding) == dump(value, encoding)

load(b, p, encoding) ==
  LET current_pos == p
      except(r) ==
        IF r.err = "DeserializationError" /\ r.pos = current_pos
        THEN Raise("DeserializationEOFError", r.pos)
        ELSE r
  IN  except(deserialize(b, p, encoding))

\* loads: deserialize(BytesIO(data), encoding)
loads(data, encoding) == deserialize(data, 0, encoding)

(***************************************************************************)
(* The vlq functions on one stream (test/__init__.py, VlqTest): values are *)
(* written back to back, the file is rewound and each value is read with   *)
(* the reader of the function that wrote it.                               *)
(***************************************************************************)
FixedSizes == 0..3

\* the values around each 7-bit group boundary, and two values of the tests
NatInputs ==
  {0, 300, 14786232}
    \cup UNION {{2^(7 * g) - 1, 2^(7 * g)} : g \in 1..MaxGroups}

IntInputs == NatInputs \cup {-n : n \in NatInputs}

NoResult == [err |-> "", val |-> 0, pos |-> 0]

\* the result is one the model's integers can state
InModel(r) == r.err # "ModelRange"

Writing == last.op \in {"init", "write_vlq", "write_vlq_signed"}

\* the write that starts at the file position, if any
EntriesAt(p) == {j \in DOMAIN log : log[j].start = p}

InitVlq ==
  /\ buf = <<>>
  /\ pos = 0
  /\ param \in FixedSizes
  /\ log = <<>>
  /\ subclasses = <<>>
  /\ cache = NoCache
  /\ last = [op |-> "init", at |-> 0, res |-> NoResult]

Written(fn, n, bytes) ==
  /\ buf' = file_write(bytes, buf, pos)
  /\ pos' = pos + Len(bytes)
  /\ log' = Append(log, [fn |-> fn, n |-> n, start |-> pos, stop |-> pos + Len(bytes)])
  /\ last' = [op |-> fn, at |-> pos, res |-> NoResult]
  /\ UNCHANGED <<param, subclasses, cache>>

WriteVlq ==
  /\ Writing
  /\ Len(log) < MaxWrites
  /\ \E n \in NatInputs : Written("write_vlq", n, write_vlq(n))

WriteVlqSigned ==
  /\ Writing
  /\ Len(log) < MaxWrites
  /\ \E n \in IntInputs : Written("write_vlq_signed", n, write_vlq_signed(n, param))

\* file.seek(0)
Seek0 ==
  /\ pos > 0
  /\ pos' = 0
  /\ last' = [op |-> "seek", at |-> pos, res |-> NoResult]
  /\ UNCHANGED <<buf, param, log, subclasses, cache>>

ReadVlq ==
  /\ ~Writing
  /\ \E j \in EntriesAt(pos) : log[j].fn = "write_vlq"
  /\ last' = [op |-> "read_vlq", at |-> pos, res |-> read_vlq(buf, pos)]
  /\ pos' = last'.res.pos
  /\ UNCHANGED <<buf, param, log, subclasses, cache>>

ReadVlqSigned ==
  /\ ~Writing
  /\ \E j \in EntriesAt(pos) : log[j].fn = "write_vlq_signed"
  /\ last' = [op |-> "read_vlq_signed", at |-> pos, res |-> read_vlq_signed(buf, pos, param)]
  /\ InModel(last'.res)
  /\ pos' = last'.res.pos
  /\ UNCHANGED <<buf, param, log, subclasses, cache>>

NextVlq == WriteVlq \/ WriteVlqSigned \/ Seek0 \/ ReadVlq \/ ReadVlqSigned

SpecVlq == InitVlq /\ [][NextVlq]_vars

\* the bytes a logged write put in the file
BytesOf(e) == SubSeq(buf, e.start + 1, e.stop)

RECURSIVE BitLength(_)
BitLength(n) == IF n = 0 THEN 0 ELSE 1 + BitLength(n \div 2)

\* C2: read_vlq at the place where write_vlq(n) wrote returns n and stops
\* right after the bytes of that write.
VlqRoundTrip ==
  last.op = "read_vlq" =>
    \A j \in EntriesAt(last.at) :
      log[j].fn = "write_vlq" =>
        last.res = [err |-> "", val |-> log[j].n, pos |-> log[j].stop]

VlqRoundTripWitness ==
  /\ last.op = "read_vlq"
  /\ last.at > 0
  /\ last.res.err = ""
  /\ last.res.val = 14786232
  /\ last.res.pos = Len(buf)

\* C3: write_vlq(n) writes max(1, ceil(bit_length(n) / 7)) bytes; byte i holds
\* bits 7i..7i+6 of n in its low 7 bits; the high bit is set on every byte
\* but the last; 300 is written as 0xAC 0x02.
VlqLayout ==
  \A j \in DOMAIN log :
    log[j].fn = "write_vlq" =>
      LET n == log[j].n
          bytes == BytesOf(log[j])
          groups == (BitLength(n) + 6) \div 7
      IN  /\ Len(bytes) = (IF groups < 1 THEN 1 ELSE groups)
          /\ \A i \in 0..(Len(bytes) - 1) :
                /\ bytes[i + 1] % 128 = (n \div 2^(7 * i)) % 128
                /\ (bytes[i + 1] >= 128) <=> (i < Len(bytes) - 1)
          /\ (n = 300 => bytes = <<172, 2>>)

VlqLayoutWitness ==
  /\ Len(log) = 2
  /\ log[1].fn = "write_vlq" /\ log[1].n = 300
  /\ log[2].fn = "write_vlq" /\ log[2].n = 14786232
  /\ Len(BytesOf(log[2])) = 4

\* C4: read_vlq_signed(fixed_size) at the place where
\* write_vlq_signed(n, fixed_size) wrote returns n, for n of either sign and
\* each fixed_size in 0..3; 0 is written with sign bit 0 and read as 0.
SignedRoundTrip ==
  /\ last.op = "read_vlq_signed" =>
        \A j \in EntriesAt(last.at) :
          log[j].fn = "write_vlq_signed" =>
            last.res = [err |-> "", val |-> log[j].n, pos |-> log[j].stop]
  /\ \A j \in DOMAIN log :
        (log[j].fn = "write_vlq_signed" /\ log[j].n = 0) =>
          BytesOf(log[j])[1] % 2 = 0

SignedRoundTripWitness ==
  /\ last.op = "read_vlq_signed"
  /\ param = 3
  /\ last.at > 0
  /\ last.res.val = -14786232
  /\ \E j \in DOMAIN log : log[j].fn = "write_vlq_signed" /\ log[j].n = 0

(***************************************************************************)
(* The entry points on one stream (test/__init__.py, DecoratorTest and     *)
(* FileTest).  The harness fixes an encoding (param), then either          *)
(*   - dumps values to the file back to back, rewinds and loads them, or   *)
(*   - opens a file over given bytes and loads from it, or                 *)
(*   - calls dumps on a value and loads on the bytes it returned, or       *)
(*   - calls loads on given bytes.                                         *)
(***************************************************************************)
Str61128 == StrV(<<54, 49, 49, 50, 56>>)
StrEAcute == StrV(<<233>>)
Strs == {StrV(<<>>), Str61128, StrEAcute}

IntLists ==
  {ListV(<<>>), ListV(<<IntV(300)>>), ListV(<<IntV(3), IntV(4)>>),
   ListV(<<IntV(3), IntV(4), IntV(-5)>>)}

StreamEncodings ==
  {IntT, StrT, NoneT, ListOf(IntT), OptionalOf(IntT), OptionalOf(StrT),
   UnionOf(<<IntT, StrT>>),
   ClassT("A1"), ClassT("A2"), ClassT("A3"), ClassT("A3f"), EnumT("Color"),
   Fmt("v8"), Fmt("v16"), Fmt("v32"), Fmt("v64"),
   FlagT("Perm"), FlagT("Mode"), FlagT("Wide"),
   UnionOf(<<ClassT("B"), ClassT("C")>>), UnionOf(<<ClassT("C"), ClassT("B")>>),
   UnionOf(<<AnnotatedOf(IntT, <<Meta("meta")>>), StrT>>),
   UnionOf(<<StrT, IntT, AnnotatedOf(IntT, <<Meta("meta")>>)>>),
   UnionOf(<<ListOf(IntT), StrT>>), UnionOf(<<StrT, ListOf(IntT)>>),
   AnnotatedOf(IntT, <<Meta("meta"), SerializationFormat(Fmt("u16"))>>),
   LiteralOf(<<IntV(5)>>), LiteralOf(<<Str61128>>),
   DequeOf(IntT), DequeOf(StrT),
   LiteralOf(<<IntV(5), StrV(<<97>>), IntV(7)>>),
   EnumT("E5"), EnumT("E256"), EnumT("E300"), EnumT("E65537")}

\* the values the harness hands to dump under an encoding
ValuesOf(encoding) ==
  IF encoding = IntT THEN {IntV(n) : n \in IntInputs}
  ELSE IF encoding.kind = "format" THEN {IntV(n) : n \in NatInputs}
  ELSE IF encoding = StrT THEN Strs
  ELSE IF encoding = NoneT THEN {NoneV}
  ELSE IF encoding = ListOf(IntT) THEN IntLists
  ELSE IF encoding = OptionalOf(IntT) THEN {NoneV, IntV(0), IntV(7), IntV(300)}
  ELSE IF encoding = OptionalOf(StrT) THEN {NoneV} \cup Strs
  ELSE IF encoding = UnionOf(<<IntT, StrT>>) THEN {IntV(7), IntV(300), Str61128, NoneV}
  ELSE IF encoding.kind = "union" /\ ClassT("B") \in {encoding.args[j] : j \in DOMAIN encoding.args}
  THEN {ObjV("B", <<IntV(1)>>), ObjV("C", <<IntV(1), IntV(2)>>), IntV(7)}
  ELSE IF encoding.kind = "union"
  THEN {IntV(7), IntV(300), Str61128, NoneV, ListV(<<IntV(3), IntV(4)>>)}
  ELSE IF encoding.kind = "annotated" THEN {IntV(7), IntV(300), IntV(65536)}
  ELSE IF encoding = DequeOf(IntT)
  THEN {DequeV(NoneV, <<IntV(1), IntV(2), IntV(3)>>), DequeV(NoneV, <<>>),
        DequeV(IntV(2), <<IntV(1), IntV(2)>>), DequeV(IntV(2), <<IntV(300)>>),
        DequeV(IntV(0), <<>>), DequeV(IntV(5), <<IntV(1), IntV(2), IntV(3)>>),
        DequeV(IntV(1), <<IntV(-5)>>)}
  ELSE IF encoding = DequeOf(StrT)
  THEN {DequeV(NoneV, <<Str61128>>), DequeV(IntV(1), <<StrEAcute>>),
        DequeV(IntV(2), <<StrV(<<>>), Str61128>>)}
  ELSE IF encoding.kind = "literal"
  THEN {encoding.args[j] : j \in DOMAIN encoding.args} \cup {IntV(8)}
  ELSE IF encoding = ClassT("A1")
  THEN {ObjV("A1", <<IntV(a), Str61128, c>>) : a \in {0, 4091}, c \in IntLists}
  ELSE IF encoding = ClassT("A2")
  THEN {ObjV("A2", <<IntV(a), b>>) : a \in {4091, -5}, b \in {Str61128, StrV(<<>>)}}
  ELSE IF encoding = ClassT("A3")
  THEN {ObjV("A3", <<IntV(a), b, IntV(c)>>) :
          a \in {4, 4091, -5}, b \in {Str61128, StrEAcute}, c \in {16, 32}}
  ELSE IF encoding = ClassT("A3f")
  THEN {ObjV("A3f", <<IntV(a), c, b>>) :
          a \in {4, 4091}, c \in {ListV(<<>>), ListV(<<IntV(1), IntV(2)>>)},
          b \in {Str61128, StrV(<<>>)}}
  ELSE IF encoding = EnumT("Color") THEN {EnumV("Color", j) : j \in 0..2}
  ELSE IF encoding.kind = "enum"
  THEN {EnumV(encoding.name, j) :
          j \in {0, 1, 4, 255, 256, 299, 65536} \cap (0..(EnumSize(encoding.name) - 1))}
  ELSE IF encoding \in {FlagT("Perm"), FlagT("Mode")}
  THEN {FlagV(encoding.name, f) : f \in 0..7}
  ELSE IF encoding = FlagT("Wide")
  THEN {FlagV("Wide", f) : f \in {0, 1, 255, 256, 257, 511}}
  ELSE {}

Prefixes(bytes) == {SubSeq(bytes, 1, n) : n \in 0..Len(bytes)}

\* bytes no dump of the model wrote: ordinals out of range, a count with no
\* items, a varint with no last byte, text that is not UTF-8
RawSamples == {<<2>>, <<3>>, <<5, 7>>, <<200>>, <<128, 1>>, <<1, 255>>}

\* a maxlen and a list of more items than the maxlen: maxlen 2 then [1, 2, 3],
\* maxlen 0 then [1, 2], maxlen 1 then [4, 5, 6, 7], no maxlen then [1, 2, 3]
DequeSamples ==
  {<<0, 2, 3, 1, 2, 3>>, <<0, 0, 2, 1, 2>>, <<0, 1, 4, 4, 5, 6, 7>>, <<1, 3, 1, 2, 3>>}

\* the bytes the harness hands to loads, or opens a file over
BytesFor(encoding) ==
  RawSamples \cup UNION {Prefixes(dumps(v, encoding).bytes) : v \in ValuesOf(encoding)}
    \cup (IF encoding = DequeOf(IntT) THEN DequeSamples ELSE {})

\* the call just made: op its name, at the file position it started at, arg
\* the value dumped (for loads after dumps: the value the bytes came from),
\* data the bytes written or the bytes loaded from, res its result
Call(op, at, arg, data, res) ==
  [op |-> op, at |-> at, arg |-> arg, data |-> data, res |-> res]

NoCall == Call("init", 0, NoneV, <<>>, Return(NoneV, 0))

Init ==
  /\ buf = <<>>
  /\ pos = 0
  /\ param \in StreamEncodings
  /\ log = <<>>
  /\ subclasses = <<>>
  /\ cache = NoCache
  /\ last = NoCall

\* dump(value, file, param), or dump(value, file) for an instance of a class
Dump ==
  /\ last.op \in {"init", "dump"}
  /\ Len(log) < MaxWrites
  /\ \E v \in ValuesOf(param) :
       \E encoding \in {param} \cup (IF param.kind = "class" THEN {NoEncoding} ELSE {}) :
         LET w == dump(v, encoding)
             stop == pos + Len(w.bytes)
         IN  /\ buf' = file_write(w.bytes, buf, pos)
             /\ pos' = stop
             /\ log' = Append(log, [v |-> v, start |-> pos, stop |-> stop, err |-> w.err])
             /\ last' = Call("dump", pos, v, w.bytes, [err |-> w.err, val |-> NoneV, pos |-> stop])
  /\ UNCHANGED <<param, subclasses, cache>>

\* file.seek(0)
Rewind ==
  /\ last.op \in {"dump", "load"}
  /\ pos > 0
  /\ pos' = 0
  /\ last' = Call("seek", pos, NoneV, <<>>, Return(NoneV, 0))
  /\ UNCHANGED <<buf, param, log, subclasses, cache>>

\* file = BytesIO(data)
Open ==
  /\ last.op = "init"
  /\ \E data \in BytesFor(param) :
       /\ buf' = data
       /\ last' = Call("open", 0, NoneV, data, Return(NoneV, 0))
  /\ pos' = 0
  /\ UNCHANGED <<param, log, subclasses, cache>>

\* load(file, param)
Load ==
  /\ last.op \in {"init", "seek", "open", "load"}
  /\ last' = Call("load", pos, NoneV, SubSeq(buf, pos + 1, Len(buf)), load(buf, pos, param))
  /\ InModel(last'.res)
  /\ pos' = last'.res.pos
  /\ UNCHANGED <<buf, param, log, subclasses, cache>>

\* encoded = dumps(value, param), or dumps(value) for an instance of a class
Dumps ==
  /\ last.op = "init"
  /\ \E v \in ValuesOf(param) :
       \E encoding \in {param} \cup (IF param.kind = "class" THEN {NoEncoding} ELSE {}) :
         LET w == dumps(v, encoding)
         IN  last' = Call("dumps", 0, v, w.bytes, [err |-> w.err, val |-> NoneV, pos |-> 0])
  /\ UNCHANGED <<buf, pos, param, log, subclasses, cache>>

\* decoded = loads(encoded, param)
LoadsEncoded ==
  /\ last.op = "dumps"
  /\ last.res.err = ""
  /\ last' = Call("loads", 0, last.arg, last.data, loads(last.data, param))
  /\ InModel(last'.res)
  /\ UNCHANGED <<buf, pos, param, log, subclasses, cache>>

\* loads(data, param) on bytes that no dumps returned
LoadsBytes ==
  /\ last.op = "init"
  /\ \E data \in BytesFor(param) :
       /\ last' = Call("loads_bytes", 0, NoneV, data, loads(data, param))
       /\ InModel(last'.res)
  /\ UNCHANGED <<buf, pos, param, log, subclasses, cache>>

\* the counts handed to get_encoding_for_int_range: around 1 << 8 and
\* 1 << 16, and 2^32 - 1, 2^32, 2^32 + 1, 2^64 - 1, 2^64, 2^64 + 1, 2^80
RangeInputs ==
  {Limbs(n) : n \in {0, 1, 5, 255, 256, 257, 300, 65535, 65536, 65537}}
    \cup {<<65535, 65535>>, ShiftLeft1(32), <<1, 0, 1>>,
          <<65535, 65535, 65535, 65535>>, ShiftLeft1(64), <<1, 0, 0, 0, 1>>,
          ShiftLeft1(80)}

\* get_encoding_for_int_range(max_value)
GetEncoding ==
  /\ last.op \in {"init", "dump"}
  /\ \E max_value \in RangeInputs :
       last' = Call("get_encoding_for_int_range", pos, max_value, <<>>,
                    [err |-> "", val |-> get_encoding_for_int_range(max_value), pos |-> pos])
  /\ UNCHANGED <<buf, pos, param, log, subclasses, cache>>

Next ==
  Dump \/ Rewind \/ Open \/ Load \/ Dumps \/ LoadsEncoded \/ LoadsBytes \/ GetEncoding

Spec == Init /\ [][Next]_vars

(***************************************************************************)
(* union_serializable (decorator.py): a base class, subclasses defined one *)
(* after another, and values encoded and decoded through the base.  Every  *)
(* subclass is a dataclass registered with @serializable.  log holds, in   *)
(* their order, the definitions of the subclasses and the first use of the *)
(* base.                                                                   *)
(***************************************************************************)
\* the base registered with union_serializable
BaseT == [kind |-> "base", name |-> "Base", args |-> <<>>]

\* functools.reduce(operator.or_, target.__subclasses__()): TypeError for no
\* subclass, the subclass itself for one, the union of them for more
reduce_subclasses(subs) ==
  IF subs = <<>> THEN [err |-> "TypeError", encoding |-> <<>>]
  ELSE IF Len(subs) = 1 THEN [err |-> "", encoding |-> ClassT(subs[1])]
  ELSE [err |-> "", encoding |-> UnionOf([j \in DOMAIN subs |-> ClassT(subs[j])])]

\* @functools.cache get_encoding(): the value cached, or else the value
\* computed now (a call that raises caches nothing)
get_encoding(cached, subs) ==
  IF cached.set THEN [err |-> "", encoding |-> cached.encoding]
  ELSE reduce_subclasses(subs)

\* the cache after a call of get_encoding
cache_after(cached, subs) ==
  IF cached.set \/ get_encoding(cached, subs).err # "" THEN cached
  ELSE [set |-> TRUE, encoding |-> get_encoding(cached, subs).encoding]

\* union_serializable._serialize: type(self).__serialize__ is
\* target.__serialize__ for an instance of a class that is not registered
union_base_serialize(self, cached, subs) ==
  IF self.t \notin ClassNames THEN WriteRaised("ValueError", <<>>)
  ELSE IF get_encoding(cached, subs).err # ""
  THEN WriteRaised(get_encoding(cached, subs).err, <<>>)
  ELSE serialize(self, get_encoding(cached, subs).encoding)

\* union_serializable._deserialize
union_base_deserialize(b, p, cached, subs) ==
  IF get_encoding(cached, subs).err # ""
  THEN Raise(get_encoding(cached, subs).err, p)
  ELSE deserialize(b, p, get_encoding(cached, subs).encoding)

\* an instance of each subclass
InstanceOfSubclass(name) ==
  CASE name = "S1" -> ObjV("S1", <<IntV(1)>>)
    [] name = "S2" -> ObjV("S2", <<IntV(2)>>)
    [] name = "S3" -> ObjV("S3", <<IntV(3)>>)

\* bytes to decode through the base
UnionSamples == {<<>>, <<5>>, <<0, 5>>, <<1, 5>>, <<2, 5>>}

Defined == {subclasses[j] : j \in DOMAIN subclasses}

Used == \E j \in DOMAIN log : log[j].ev = "use"

\* the history after a use of the base: the first use is recorded
LogUse == IF Used THEN log ELSE Append(log, [ev |-> "use", name |-> ""])

InitUnion ==
  /\ buf = <<>>
  /\ pos = 0
  /\ param = BaseT
  /\ log = <<>>
  /\ last = NoCall
  /\ subclasses = <<>>
  /\ cache = NoCache

\* class S(Base): ... with @serializable @dataclass
DefineSubclass ==
  /\ \E name \in SubclassNames \ Defined :
       /\ subclasses' = Append(subclasses, name)
       /\ log' = Append(log, [ev |-> "define", name |-> name])
       /\ last' = Call("define", 0, NoneV, <<>>, Return(NoneV, 0))
  /\ UNCHANGED <<buf, pos, param, cache>>

\* dumps(value, Base) for an instance of a subclass
EncodeThroughBase ==
  /\ \E name \in Defined :
       LET w == union_base_serialize(InstanceOfSubclass(name), cache, subclasses)
       IN  last' = Call("dumps", 0, InstanceOfSubclass(name), w.bytes,
                        [err |-> w.err, val |-> NoneV, pos |-> 0])
  /\ cache' = cache_after(cache, subclasses)
  /\ log' = LogUse
  /\ UNCHANGED <<buf, pos, param, subclasses>>

\* loads(data, Base)
DecodeThroughBase ==
  /\ \E data \in UnionSamples :
       last' = Call("loads_bytes", 0, NoneV, data,
                    union_base_deserialize(data, 0, cache, subclasses))
  /\ cache' = cache_after(cache, subclasses)
  /\ log' = LogUse
  /\ UNCHANGED <<buf, pos, param, subclasses>>

NextUnion == DefineSubclass \/ EncodeThroughBase \/ DecodeThroughBase

SpecUnion == InitUnion /\ [][NextUnion]_vars

(***************************************************************************)
(* Properties of the entry points                                          *)
(***************************************************************************)
\* every value dumped so far, with the bytes its dump wrote
Dumped ==
  {<<log[j].v, BytesOf(log[j])>> : j \in {k \in DOMAIN log : log[k].err = ""}}
    \cup (IF last.op = "dumps" /\ last.res.err = "" THEN {<<last.arg, last.data>>} ELSE {})

\* DeserializationEOFError is a DeserializationError
IsDeserializationError(err) ==
  err \in {"DeserializationError", "DeserializationEOFError"}

\* the file holds the bytes of the dumps of log, all of which returned
StreamOfDumps ==
  /\ \A j \in DOMAIN log : log[j].err = ""
  /\ Len(buf) = (IF log = <<>> THEN 0 ELSE log[Len(log)].stop)

\* an encoding under which every value takes at least one byte
NeedsBytes(encoding) == encoding # NoneT

\* an encoding that leaves nothing of a value out of the bytes
KeepsAllFields(encoding) ==
  encoding.kind = "class" =>
    \A i \in DOMAIN ClassDef(encoding.name).fields :
      ClassDef(encoding.name).fields[i].serialize

\* C1: for the classes of test1 and test2 (fields int, str, list[int]),
\* loads(dumps(v), A) == v, negative integers included.
ClassRoundTrip ==
  (last.op = "loads" /\ param \in {ClassT("A1"), ClassT("A2")}) =>
    (last.res.err = "" /\ last.res.val = last.arg)

\* fixed_size of 'v8', 'v16', 'v32', 'v64'
FixedSizeOf(name) ==
  CASE name = "v8" -> 0 [] name = "v16" -> 1 [] name = "v32" -> 2 [] name = "v64" -> 3

\* C5: under 'v8'..'v64' (fixed_size k = 0..3) a non-negative n is written
\* as n mod 2^(8k) in k little-endian bytes, then the varint of n >> 8k, and
\* deserializing those bytes with the same format returns n.
SizedVarintFormat ==
  (param.kind = "format" /\ param.name \in {"v8", "v16", "v32", "v64"}) =>
    LET k == FixedSizeOf(param.name)
    IN  /\ \A d \in Dumped :
              d[2] = to_bytes_little(d[1].i % 256^k, k) \o write_vlq(d[1].i \div 256^k)
        /\ last.op = "loads" => (last.res.err = "" /\ last.res.val = last.arg)

\* C6 as claimed: under Optional[T], None is written as ordinal 0 and
\* nothing more, a present x as ordinal 1 and then x under T.
OptionalAbsentIsZero ==
  \A T \in {IntT, StrT} :
    param = OptionalOf(T) =>
      \A d \in Dumped :
        d[2] = (IF d[1] = NoneV THEN <<0>> ELSE <<1>> \o serialize(d[1], T).bytes)

\* C6 as amended: under Optional[T] (T a class such as int or str, the
\* union's variants being T, NoneType in that order) a present x is written
\* as ordinal 0 and then x under T, None as ordinal 1 and nothing more:
\* Optional[int]: None -> 0x01, 7 -> 0x00 0x07.
OptionalAbsentIsOne ==
  \A T \in {IntT, StrT} :
    param = OptionalOf(T) =>
      \A d \in Dumped :
        /\ d[2] = (IF d[1] = NoneV THEN <<1>> ELSE <<0>> \o serialize(d[1], T).bytes)
        /\ d[1] = IntV(7) => d[2] = <<0, 7>>

OptionalAbsentIsOneWitness ==
  /\ param = OptionalOf(IntT)
  /\ Len(log) = 2
  /\ log[1].v = NoneV /\ log[1].err = ""
  /\ log[2].v = IntV(7) /\ log[2].err = ""

\* some dump under the encoding wrote bytes that start with data and go on
IsProperPrefix(data, encoding) ==
  \E v \in ValuesOf(encoding) :
    /\ dumps(v, encoding).err = ""
    /\ Len(data) < Len(dumps(v, encoding).bytes)
    /\ data = SubSeq(dumps(v, encoding).bytes, 1, Len(data))

\* data starts with all the bytes of some dump under the encoding
HoldsValue(data, encoding) ==
  \E v \in ValuesOf(encoding) :
    /\ dumps(v, encoding).err = ""
    /\ Len(dumps(v, encoding).bytes) <= Len(data)
    /\ dumps(v, encoding).bytes = SubSeq(data, 1, Len(dumps(v, encoding).bytes))

Truncated(data, encoding) ==
  data # <<>> /\ IsProperPrefix(data, encoding) /\ ~HoldsValue(data, encoding)

\* C7, load on a stream at its end
LoadAtEndIsEOF ==
  (last.op = "load" /\ last.data = <<>> /\ NeedsBytes(param)) =>
    last.res.err = "DeserializationEOFError"

\* C7, loads on empty data
LoadsEmptyIsEOF ==
  (last.op = "loads_bytes" /\ last.data = <<>> /\ NeedsBytes(param)) =>
    last.res.err = "DeserializationEOFError"

\* C7, a truncated buffer that is not empty
TruncatedIsError ==
  (last.op \in {"load", "loads_bytes"} /\ Truncated(last.data, param)) =>
    last.res.err = "DeserializationError"

\* C7: decoding an empty buffer, through load on a stream at its end and
\* through loads on empty data, raises DeserializationEOFError; decoding a
\* buffer that is not empty and is cut before the value is complete raises
\* a DeserializationError that is no DeserializationEOFError.
EofVsCorruption == LoadAtEndIsEOF /\ LoadsEmptyIsEOF /\ TruncatedIsError

\* C8: after N dumps to one stream and a rewind, each load returns the value
\* of the dump that started where the load starts and stops where that dump
\* stopped, and a load at the end of the stream raises
\* DeserializationEOFError (stated for the encodings under which a value
\* takes at least one byte and none of its fields is left out).
StreamReadBack ==
  (last.op = "load" /\ StreamOfDumps /\ NeedsBytes(param) /\ KeepsAllFields(param)) =>
    /\ \A j \in DOMAIN log :
         log[j].start = last.at => last.res = Return(log[j].v, log[j].stop)
    /\ last.at = Len(buf) => last.res.err = "DeserializationEOFError"

\* the bytes of the serialized fields of an instance, from the field at index
RECURSIVE SerializedFields(_, _, _)
SerializedFields(obj, fields, index) ==
  IF index > Len(fields) THEN <<>>
  ELSE (IF fields[index].serialize
        THEN serialize(obj.items[index], fields[index].type).bytes
        ELSE <<>>)
         \o SerializedFields(obj, fields, index + 1)

\* C9: a dataclass field declared with serialize=False and a default (or a
\* default factory) adds no bytes, so the bytes are those of the serialized
\* fields whatever the field holds; in the decoded object the field holds
\* the declared default, and every serialized field holds what decoding its
\* own bytes gives (the value itself for a str or an int >= 0).
SkippedField ==
  \A name \in {"A3", "A3f"} :
    param = ClassT(name) =>
      LET fields == ClassDef(name).fields
      IN  /\ last.op \in {"dumps", "loads"} =>
                last.data = SerializedFields(last.arg, fields, 1)
          /\ last.op = "loads" =>
                /\ last.res.err = ""
                /\ last.res.val.t = name
                /\ Len(last.res.val.items) = Len(fields)
                /\ \A i \in DOMAIN fields :
                     IF ~fields[i].serialize
                     THEN last.res.val.items[i] = fields[i].default
                     ELSE /\ last.res.val.items[i] =
                               loads(serialize(last.arg.items[i], fields[i].type).bytes,
                                     fields[i].type).val
                          /\ (last.arg.items[i].t = "str" \/ last.arg.items[i].i >= 0) =>
                               last.res.val.items[i] = last.arg.items[i]

SkippedFieldWitness ==
  /\ param = ClassT("A3")
  /\ last.op = "loads"
  /\ last.arg.items[3] = IntV(32)
  /\ last.res.val.items[3] = IntV(16)
  /\ last.res.val.items[1] = IntV(4091)
  /\ last.res.val.items[2] = StrEAcute

\* the bytes start with a union ordinal, or an enum index, beyond the variants
OrdinalTooLarge(data, encoding) ==
  \/ /\ encoding.kind = "union"
     /\ read_vlq(data, 0).err = ""
     /\ read_vlq(data, 0).val >= Len(encoding.args)
  \/ /\ encoding.kind = "enum"
     /\ data # <<>>
     /\ data[1] >= EnumSize(encoding.name)

\* C10: decoding a union whose wire ordinal, or an enum whose wire index, is
\* at or beyond the number of variants fails with DeserializationError.
OrdinalOutOfRange ==
  (last.op \in {"load", "loads_bytes"} /\ OrdinalTooLarge(last.data, param)) =>
    IsDeserializationError(last.res.err)

(***************************************************************************)
(* Flags and the choice of a width                                         *)
(***************************************************************************)
\* the places in the declaration (counted from 0) of the variants set in f
VariantsSetIn(f, name) ==
  {j \in 0..(Len(FlagVariants(name)) - 1) : BitAnd(FlagVariants(name)[j + 1], f.i) # 0}

RECURSIVE SumOfWeights(_)
SumOfWeights(indexes) ==
  IF indexes = {} THEN 0
  ELSE LET j == CHOOSE k \in indexes : TRUE
       IN  2^j + SumOfWeights(indexes \ {j})

\* the integer written for a combination f is the sum of 2^declaration_index
\* over the variants set in f
FlagEncodedSum ==
  \A name \in FlagNames :
    (param = FlagT(name) /\ last.op = "dumps") =>
      /\ last.res.err = ""
      /\ from_bytes_little(last.data) = SumOfWeights(VariantsSetIn(last.arg, name))

\* decoding the bytes of a combination that is not empty returns it
FlagNonEmptyRoundTrip ==
  \A name \in FlagNames :
    (param = FlagT(name) /\ last.op = "loads" /\ last.arg.i # 0) =>
      (last.res.err = "" /\ last.res.val = last.arg)

\* C11: for a Flag registered with @serializable and every combination f of
\* its variants, the empty one included, the integer written is the sum of
\* 2^declaration_index over the variants set in f, and decoding the bytes
\* returns a value equal to f.
FlagRoundTrip ==
  \A name \in FlagNames :
    param = FlagT(name) =>
      /\ last.op = "dumps" =>
            /\ last.res.err = ""
            /\ from_bytes_little(last.data) = SumOfWeights(VariantsSetIn(last.arg, name))
      /\ last.op = "loads" =>
            (last.res.err = "" /\ last.res.val = last.arg)

\* max_value <= 1 << k, read off the digits of max_value
Covers(max_value, k) ==
  \/ Len(max_value) <= k \div 16
  \/ Len(max_value) = k \div 16 + 1 /\ max_value[Len(max_value)] < 2^(k % 16)
  \/ max_value = ShiftLeft1(k)

\* C12: get_encoding_for_int_range(n) is 'u8' if n <= 256, else 'u16' if
\* n <= 65536, else 'u32' if n <= 2^32, else 'u64' if n <= 2^64, else the
\* varint 'v64'; an Enum of 5 variants is written in 1 byte and one of 300
\* variants in 2 bytes.
IntRangeWidth ==
  /\ last.op = "get_encoding_for_int_range" =>
        last.res.val = (IF Covers(last.arg, 8) THEN "u8"
                        ELSE IF Covers(last.arg, 16) THEN "u16"
                        ELSE IF Covers(last.arg, 32) THEN "u32"
                        ELSE IF Covers(last.arg, 64) THEN "u64"
                        ELSE "v64")
  /\ param = EnumT("E5") => \A d \in Dumped : d[2] = <<d[1].i>>
  /\ param = EnumT("E300") =>
        \A d \in Dumped : d[2] = <<d[1].i % 256, d[1].i \div 256>>

IntRangeWidthWitness ==
  /\ param = EnumT("E300")
  /\ log # <<>> /\ log[1].v = EnumV("E300", 299) /\ BytesOf(log[1]) = <<43, 1>>
  /\ last.op = "get_encoding_for_int_range"
  /\ last.arg = <<1, 0, 0, 0, 1>>
  /\ last.res.val = "v64"

(***************************************************************************)
(* Unions                                                                  *)
(***************************************************************************)
\* the value is an instance of the variant (an Annotated variant standing
\* for its underlying type, a list[...] variant for list)
InstanceOf(value, variant_type) ==
  LET inner_type == InnerType(variant_type)
  IN  IF inner_type.kind = "list" THEN value.t = "list"
      ELSE value.t = inner_type.name \/ inner_type.name \in Bases(value.t)

\* the indexes of the variants the value is an instance of
MatchingVariants(value, variants) ==
  {j \in 0..(Len(variants) - 1) : InstanceOf(value, variants[j + 1])}

\* what the claim says serialize writes for the value under the union
FirstMatchWritten(value, variants, err, bytes) ==
  LET matching == MatchingVariants(value, variants)
      first == CHOOSE j \in matching : \A k \in matching : j <= k
  IN  IF matching = {} THEN err = "ValueError" /\ bytes = <<>>
      ELSE /\ err = ""
           /\ bytes = write_vlq(first) \o serialize(value, variants[first + 1]).bytes

\* every variant is a class, or an Annotated of a class
ClassVariants(variants) ==
  \A j \in DOMAIN variants :
    InnerType(variants[j]).kind \in {"type", "class", "enum", "flag"}

\* the first match is written, under the unions whose variants are classes
UnionFirstMatchOfClasses ==
  (param.kind = "union" /\ ClassVariants(param.args) /\ last.op \in {"dump", "dumps"}) =>
    FirstMatchWritten(last.arg, param.args, last.res.err, last.data)

\* C13: serialize under a union writes the index of the first variant, in
\* the declared order, that the value is an instance of (an Annotated
\* variant tested on its underlying type), then the value under that
\* variant; when no variant matches it raises ValueError and writes nothing.
UnionFirstMatch ==
  (param.kind = "union" /\ last.op \in {"dump", "dumps"}) =>
    FirstMatchWritten(last.arg, param.args, last.res.err, last.data)

(***************************************************************************)
(* Literals                                                                *)
(***************************************************************************)
\* the place (counted from 0) of a constant in the declared order
PlaceOf(value, variants) == CHOOSE j \in 0..(Len(variants) - 1) : variants[j + 1] = value

\* C14: a Literal of one constant is written as no byte and read as that
\* constant without reading or moving the stream, whatever bytes follow; a
\* Literal of several constants is written as the varint index of the value
\* in the declared order and read by indexing the constants.
LiteralElision ==
  param.kind = "literal" =>
    IF Len(param.args) = 1
    THEN /\ last.op \in {"dump", "dumps"} => (last.res.err = "" /\ last.data = <<>>)
         /\ last.op \in {"load", "loads", "loads_bytes"} =>
               last.res = Return(param.args[1], last.at)
    ELSE /\ (last.op \in {"dump", "dumps"}
                /\ \E j \in DOMAIN param.args : param.args[j] = last.arg) =>
               /\ last.res.err = ""
               /\ last.data = write_vlq(PlaceOf(last.arg, param.args))
         /\ (last.op \in {"load", "loads", "loads_bytes"}
                /\ last.data # <<>> /\ last.data[1] < Len(param.args)) =>
               last.res = Return(param.args[last.data[1] + 1], last.at + 1)

LiteralElisionWitness ==
  /\ param = LiteralOf(<<IntV(5)>>)
  /\ last.op = "load"
  /\ last.data = <<5, 7>>
  /\ last.res = Return(IntV(5), 0)

(***************************************************************************)
(* Deques                                                                  *)
(***************************************************************************)
\* the last maxlen items, or all of them when there is no maxlen
LastItems(items, maxlen) ==
  IF maxlen = NoneV \/ Len(items) <= maxlen.i THEN items
  ELSE SubSeq(items, Len(items) - maxlen.i + 1, Len(items))

\* what reading a maxlen under Optional[int] and then a list under
\* list[item_type] from data should build
DequeRead(data, at, item_type, res) ==
  LET maxlen == loads(data, OptionalOf(IntT))
      list == deserialize(data, maxlen.pos, ListOf(item_type))
  IN  (maxlen.err = "" /\ list.err = "") =>
        res = Return(DequeV(maxlen.val, LastItems(list.val.items, maxlen.val)),
                     at + list.pos)

\* C15: a deque is written as its maxlen under Optional[int], then its
\* contents as a list; reading builds a deque of that maxlen holding the
\* list read, or its last maxlen items when the list is longer (maxlen 2 and
\* [1, 2, 3] give [2, 3]); a deque that was dumped is read back with its
\* maxlen and its contents unchanged.
DequeMaxlen ==
  param.kind = "deque" =>
    /\ last.op \in {"dump", "dumps"} =>
          /\ last.res.err = ""
          /\ last.data = serialize(deque_maxlen(last.arg), OptionalOf(IntT)).bytes
                           \o serialize(ListV(last.arg.items), ListOf(param.args[1])).bytes
    /\ last.op \in {"load", "loads", "loads_bytes"} =>
          DequeRead(last.data, last.at, param.args[1], last.res)
    /\ (last.op = "loads" /\ \A j \in DOMAIN last.arg.items :
                               last.arg.items[j].t = "str" \/ last.arg.items[j].i >= 0) =>
          last.res = Return(last.arg, Len(last.data))
    /\ (last.op \in {"load", "loads_bytes"} /\ last.data = <<0, 2, 3, 1, 2, 3>>
          /\ param = DequeOf(IntT)) =>
          last.res.val = DequeV(IntV(2), <<IntV(2), IntV(3)>>)

DequeMaxlenWitness ==
  /\ param = DequeOf(IntT)
  /\ last.op = "loads_bytes"
  /\ last.data = <<0, 2, 3, 1, 2, 3>>
  /\ last.res = Return(DequeV(IntV(2), <<IntV(2), IntV(3)>>), 6)

(***************************************************************************)
(* The variants of a base registered with union_serializable               *)
(***************************************************************************)
\* the place in the history of the first use of the base
FirstUse == CHOOSE j \in DOMAIN log : log[j].ev = "use"

\* the subclasses defined before the first use, in the order of definition
RECURSIVE DefinedBefore(_)
DefinedBefore(j) ==
  IF j <= 1 THEN <<>>
  ELSE DefinedBefore(j - 1)
         \o (IF log[j - 1].ev = "define" THEN <<log[j - 1].name>> ELSE <<>>)

DefinedAfterFirstUse(name) ==
  Used /\ \E j \in DOMAIN log : j > FirstUse /\ log[j] = [ev |-> "define", name |-> name]

\* once the base was used, the cache holds the subclasses defined before
\* the first use, and in every later state still does
CachedAtFirstUse ==
  Used => /\ cache.set
          /\ cache.encoding =
               [kind |-> "union", name |-> "",
                args |-> [j \in DOMAIN DefinedBefore(FirstUse) |->
                            ClassT(DefinedBefore(FirstUse)[j])]]

\* an instance of a cached subclass is written with the ordinal the
\* subclass has among the subclasses defined before the first use
OrdinalsKept ==
  (Used /\ last.op = "dumps") =>
    \A j \in DOMAIN DefinedBefore(FirstUse) :
      DefinedBefore(FirstUse)[j] = last.arg.t =>
        (last.res.err = "" /\ last.data # <<>> /\ last.data[1] = j - 1)

\* encoding through the base an instance of a subclass defined after the
\* first use fails, and writes nothing
LateSubclassFails ==
  (last.op = "dumps" /\ DefinedAfterFirstUse(last.arg.t)) =>
    (last.res.err # "" /\ last.data = <<>>)

\* the cache, once set, never changes
CacheNeverChanges == [][cache.set => cache' = cache]_vars

\* the three properties, for a base that had two subclasses or more when
\* it was first used
FrozenWhenSeveral ==
  (Used /\ Len(DefinedBefore(FirstUse)) >= 2) =>
    (CachedAtFirstUse /\ OrdinalsKept /\ LateSubclassFails)

\* C16: the variants of a base registered with union_serializable are the
\* direct subclasses it has at the first encode or decode through it and
\* never change afterwards: each cached subclass keeps its wire ordinal, and
\* a subclass defined after the first use is not among them, so encoding an
\* instance of it through the base fails.
UnionVariantsFrozen ==
  CachedAtFirstUse /\ OrdinalsKept /\ LateSubclassFails

====
